---------------------------- MODULE Spec2Model ----------------------------
(***************************************************************************)
(* A model of the Office Services API (src/app.py) and of its batch        *)
(* importer (src/import_sheet.py).                                         *)
(*                                                                         *)
(* Strings whose characters matter (tokens, cell values) are sequences of  *)
(* one-character strings, so that joining, trimming and pattern matching   *)
(* are computed character by character.  Names that are only compared      *)
(* (field names, user names, passwords, error names) are plain strings.    *)
(***************************************************************************)
EXTENDS Integers, Sequences, FiniteSets, TLC

VARIABLES
    users,      \* the user table: set of [id, username, password_hash]
    pages,      \* the committed office_page table: set of page records
    nextId,     \* the next value of office_page's id sequence
    inflight,   \* per client: the create_office_page request between its
                \* existence pre-check and its commit
    response,   \* the request most recently answered, with its response
    created,    \* history: every (submitted body, returned id) answered 201
    sheet,      \* the importer's source: what the Sheets API returns for Sheet1
    ipc,        \* where import_office_sheet stands
    df,         \* its dataframe: sequence of [idx, row], idx the index label
    pos,        \* the position (iloc) of the next row to process
    session,    \* db.session of the importer: its uncommitted transaction
    success_count, error_count, error_details,
    batch_success, batch_errors,
    import_summary,  \* import_summary['office']
    main,       \* import_sheet_to_db: where it stands, overall_success and
                \* the exit status of the process once it has exited
    failed_commits,  \* the positions at which a batch commit failed (the
                     \* "Failed to commit batch" lines of the log)
    frandev     \* the franchise-development side: the tab fetched, the
                \* table sundry.choicelocal_clai_frandev, import_summary['frandev']

apiVars == <<users, pages, nextId, inflight, response, created>>

importVars == <<sheet, ipc, df, pos, session, success_count, error_count,
                error_details, batch_success, batch_errors, import_summary,
                main, failed_commits, frandev>>

vars == <<apiVars, importVars>>

-----------------------------------------------------------------------------
(* Values *)

\* JSON null / SQL NULL / a missing spreadsheet cell
Null == <<"NULL">>
\* marks a key that a JSON object does not have
Absent == <<"ABSENT">>
\* Python None as a handler-local result
None == [none |-> TRUE]

RequiredFields ==
    <<"state_office_token", "area_served_token", "service_token",
      "meta_title", "meta_description", "page_title", "page_content">>

FieldSet == {RequiredFields[i] : i \in DOMAIN RequiredFields}

Range(s) == {s[i] : i \in DOMAIN s}

\* the elements of the finite set S in every order (a query without ORDER BY)
Orderings(S) ==
    {s \in [1..Cardinality(S) -> S] : Range(s) = S}

\* [field for field in fields if P(field)], as a sequence in the order of fields
RECURSIVE FilterSeq(_, _)
FilterSeq(fields, keep) ==
    IF fields = <<>> THEN <<>>
    ELSE IF Head(fields) \in keep
         THEN <<Head(fields)>> \o FilterSeq(Tail(fields), keep)
         ELSE FilterSeq(Tail(fields), keep)


-----------------------------------------------------------------------------
(* Request inputs *)

StateTokens   == {<<"t">>, <<"u">>}
OfficeTokens  == {<<"a">>, <<"b">>}
AreaTokens    == {<<"m">>, <<"n">>}
ServiceTokens == {<<"c">>, <<"d">>}

\* the <state_token> values of /services/...: any non-empty path segment,
\* among them "_" and "%" (sent as %25)
RegionTokens == StateTokens \cup {<<"_">>, <<"%">>}

\* the join with a dash for the slash
JoinStateOffice_Dash(state_token, office_token) ==
    state_token \o <<"-">> \o office_token

\* f"{state_token}/{office_token}"
JoinStateOffice(state_token, office_token) ==
    state_token \o <<"/">> \o office_token

\* the credentials a request may carry; NoAuth is a request without an
\* Authorization header, which flask_httpauth verifies as ("", "")
NoAuth == [username |-> "", password |-> ""]
Credentials ==
    { [username |-> "admin", password |-> "changeme"],
      [username |-> "admin", password |-> "guess"],
      [username |-> "nobody", password |-> "changeme"],
      NoAuth }

\* a complete create-page body
Body(sot, ast, st, title, content) ==
    [ state_office_token |-> sot,
      area_served_token  |-> ast,
      service_token      |-> st,
      meta_title         |-> <<"T">>,
      meta_description   |-> <<"D">>,
      page_title         |-> title,
      page_content       |-> content ]

BodyTA == Body(<<"t", "/", "a">>, <<"m">>, <<"c">>, <<"P">>, <<"x">>)

CompleteBodies ==
    { BodyTA,
      Body(<<"t", "/", "a">>, <<"m">>, <<"c">>, <<"P">>, <<"y">>),
      Body(<<"t", "/", "b">>, <<"m">>, <<"c">>, <<"P">>, <<"x">>),
      Body(<<"t", "/", "a">>, <<"m">>, <<"d">>, <<"P">>, <<"x">>) }

\* the body b without the keys in S
Without(b, S) == [f \in FieldSet |-> IF f \in S THEN Absent ELSE b[f]]

\* the body b with the value of key f replaced by v
With(b, f, v) == [b EXCEPT ![f] = v]

MissingSets ==
    { {"state_office_token"},
      {"page_content"},
      {"area_served_token", "meta_title"},
      {"service_token", "meta_description", "page_title"},
      FieldSet }

Bodies ==
    CompleteBodies
    \cup {Without(BodyTA, S) : S \in MissingSets}
    \cup { With(BodyTA, "page_title", <<>>),
           With(BodyTA, "page_content", Null),
           With(Without(BodyTA, {"meta_title"}), "page_title", <<>>) }

Clients == {"c1", "c2"}

-----------------------------------------------------------------------------
(* Authentication: User model and flask_httpauth *)

generate_password_hash(password) == [hashed |-> password]

check_password_hash(password_hash, password) ==
    password_hash = generate_password_hash(password)

\* User.query.filter_by(username=username).first(), then the hash comparison
verify_password(username, password) ==
    LET found == {u \in users : u.username = username}
    IN  IF \E u \in found : check_password_hash(u.password_hash, password)
        THEN CHOOSE u \in found : check_password_hash(u.password_hash, password)
        ELSE None

\* a route without the decorator
login_required_Missing(creds) == TRUE

\* @auth.login_required: the view runs only if verify_password returns a user
login_required(creds) == verify_password(creds.username, creds.password) # None

\* the tables verify_password reads
AuthQueries == {"user"}

\* @auth.error_handler
auth_error ==
    [ status |-> 401,
      body   |-> [error |-> [ error |-> "Unauthorized",
                              message |-> [ text |-> "Invalid credentials or authentication token",
                                            tokens |-> <<>> ],
                              status_code |-> 401 ]] ]

Answer(op, creds, args, result, queried, ran) ==
    [ op |-> op, creds |-> creds, args |-> args,
      status |-> result.status, body |-> result.body,
      queried |-> queried, handler_ran |-> ran,
      db_failure |-> FALSE, rolled_back |-> FALSE ]

\* the answer to a request during which the data store raised an error;
\* rolled_back: db.session.rollback() was called before the answer
Failed(op, creds, args, result, queried, ran, rolled_back) ==
    [ op |-> op, creds |-> creds, args |-> args,
      status |-> result.status, body |-> result.body,
      queried |-> queried, handler_ran |-> ran,
      db_failure |-> TRUE, rolled_back |-> rolled_back ]

NoResponse == [op |-> "none"]

\* the arguments of a route without parameters
NoArgs == [no_args |-> TRUE]

-----------------------------------------------------------------------------
(* OfficePage model and the read handlers *)

Triple(r) == <<r.state_office_token, r.area_served_token, r.service_token>>

\* the row with meta_title stored in the page_title column
OfficePage_Swapped(id, data) ==
    [ id                 |-> id,
      state_office_token |-> data.state_office_token,
      area_served_token  |-> data.area_served_token,
      service_token      |-> data.service_token,
      meta_title         |-> data.meta_title,
      meta_description   |-> data.meta_description,
      page_title         |-> data.meta_title,
      page_content       |-> data.page_content ]

\* the row an INSERT of the submitted values stores, with the id it is given
OfficePage(id, data) ==
    [ id                 |-> id,
      state_office_token |-> data.state_office_token,
      area_served_token  |-> data.area_served_token,
      service_token      |-> data.service_token,
      meta_title         |-> data.meta_title,
      meta_description   |-> data.meta_description,
      page_title         |-> data.page_title,
      page_content       |-> data.page_content ]

\* nullable=False on every column
NotNullOk(data) == \A f \in FieldSet : data[f] # Null

\* the table without its unique constraint
UniqueOk_Dropped(rows, data) == TRUE

\* db.UniqueConstraint('state_office_token', 'area_served_token', 'service_token')
UniqueOk(rows, data) == \A r \in rows : Triple(r) # Triple(data)

\* a response body is a record with one field that names its JSON shape:
\* page (an object), pages, services, sitemap, tokens (arrays), created,
\* health, error
ErrorBody(error, message, code) ==
    [ status |-> code,
      body   |-> [error |-> [ error |-> error, message |-> message,
                              status_code |-> code ]] ]

\* a message text with the tokens formatted into it
Text(text, tokens) == [text |-> text, tokens |-> tokens]

\* the JSON object get_office_page and get_service_info build from a row
PageJson(page) ==
    [ id                 |-> page.id,
      state_office_token |-> page.state_office_token,
      area_served_token  |-> page.area_served_token,
      service_token      |-> page.service_token,
      meta_title         |-> page.meta_title,
      meta_description   |-> page.meta_description,
      page_title         |-> page.page_title,
      page_content       |-> page.page_content ]

\* the possible results of get_office_page on the table rows
get_office_page_result(rows, state_token, office_token, area_served_token, service_token) ==
    IF state_token = <<>> \/ office_token = <<>>
       \/ area_served_token = <<>> \/ service_token = <<>>
    THEN {ErrorBody("Bad Request", Text("All parameters are required", <<>>), 400)}
    ELSE LET state_office_token == JoinStateOffice(state_token, office_token)
             found == {r \in rows :
                          /\ r.state_office_token = state_office_token
                          /\ r.area_served_token = area_served_token
                          /\ r.service_token = service_token}
         IN  IF found = {}
             THEN {ErrorBody("Not Found",
                             Text("No page found",
                                  <<state_office_token, area_served_token,
                                    service_token>>), 404)}
             ELSE {[status |-> 200, body |-> [page |-> PageJson(page)]] : page \in found}

\* SQL LIKE: % matches any run of characters, _ any one character
RECURSIVE Like(_, _)
Like(s, pattern) ==
    IF pattern = <<>> THEN s = <<>>
    ELSE IF Head(pattern) = "%"
         THEN Like(s, Tail(pattern)) \/ (s # <<>> /\ Like(Tail(s), pattern))
         ELSE /\ s # <<>>
              /\ (Head(pattern) = "_" \/ Head(pattern) = Head(s))
              /\ Like(Tail(s), Tail(pattern))

\* every result list answered as an array
results_body_Array(results) == [pages |-> results]

\* "if len(results) == 1: return jsonify(results[0])", else jsonify(results)
results_body(results) ==
    IF Len(results) = 1 THEN [page |-> results[1]] ELSE [pages |-> results]

\* the possible results of get_service_info on the table rows
get_service_info_result(rows, state_token, area_served_token, service_token) ==
    IF state_token = <<>> \/ area_served_token = <<>> \/ service_token = <<>>
    THEN {ErrorBody("Bad Request", Text("All parameters are required", <<>>), 400)}
    ELSE LET found == {r \in rows :
                          /\ Like(r.state_office_token, state_token \o <<"/", "%">>)
                          /\ r.area_served_token = area_served_token
                          /\ r.service_token = service_token}
         IN  IF found = {}
             THEN {ErrorBody("Not Found",
                             Text("No service found matching",
                                  <<state_token, area_served_token,
                                    service_token>>), 404)}
             ELSE { [ status |-> 200,
                      body   |-> results_body([i \in DOMAIN ordered |->
                                                 PageJson(ordered[i])]) ]
                    : ordered \in Orderings(found) }

\* the possible results of get_area_services on the table rows
get_area_services_result(rows, state_token, office_token, area_served_token) ==
    IF state_token = <<>> \/ office_token = <<>> \/ area_served_token = <<>>
    THEN {ErrorBody("Bad Request", Text("All parameters are required", <<>>), 400)}
    ELSE LET state_office_token == JoinStateOffice(state_token, office_token)
             found == {r \in rows :
                          /\ r.state_office_token = state_office_token
                          /\ r.area_served_token = area_served_token}
         IN  IF found = {}
             THEN {ErrorBody("Not Found",
                             Text("No services found for office",
                                  <<state_office_token, area_served_token>>), 404)}
             ELSE { [ status |-> 200,
                      body   |-> [services |-> [i \in DOMAIN ordered |->
                                    [ id                 |-> ordered[i].id,
                                      state_office_token |-> ordered[i].state_office_token,
                                      area_served_token  |-> ordered[i].area_served_token,
                                      service_token      |-> ordered[i].service_token,
                                      service_page       |-> ordered[i].page_title ]]] ]
                    : ordered \in Orderings(found) }

\* the possible results of get_office_sitemap on the table rows
get_office_sitemap_result(rows, state_token, office_token) ==
    IF state_token = <<>> \/ office_token = <<>>
    THEN {ErrorBody("Bad Request", Text("All parameters are required", <<>>), 400)}
    ELSE LET state_office_token == JoinStateOffice(state_token, office_token)
             found == {r \in rows : r.state_office_token = state_office_token}
         IN  IF found = {}
             THEN {ErrorBody("Not Found",
                             Text("No services found for office",
                                  <<state_office_token>>), 404)}
             ELSE { [ status |-> 200,
                      body   |-> [sitemap |-> [i \in DOMAIN ordered |->
                                    [ state_office_token |-> ordered[i].state_office_token,
                                      area_served_token  |-> ordered[i].area_served_token,
                                      service_token      |-> ordered[i].service_token ]]] ]
                    : ordered \in Orderings(found) }

\* the query without .distinct(): one token per row
get_sitemap_index_result_All(rows) ==
    IF rows = {}
    THEN {ErrorBody("Not Found", Text("No office pages found in the database", <<>>), 404)}
    ELSE {[ status |-> 200,
            body |-> [tokens |-> [i \in DOMAIN ordered |-> ordered[i].state_office_token]] ]
          : ordered \in Orderings(rows)}

\* the possible results of get_sitemap_index on the table rows
get_sitemap_index_result(rows) ==
    LET distinct_tokens == {r.state_office_token : r \in rows}
    IN  IF distinct_tokens = {}
        THEN {ErrorBody("Not Found", Text("No office pages found in the database", <<>>), 404)}
        ELSE {[status |-> 200, body |-> [tokens |-> tokens]]
              : tokens \in Orderings(distinct_tokens)}

health_check_result ==
    [ status |-> 200,
      body   |-> [health |-> [ status |-> "healthy",
                               message |-> "Office Services API is running" ]] ]

-----------------------------------------------------------------------------
(* create_office_page *)

Idle == [pc |-> "idle"]

\* only the first missing key is reported
missing_fields_First(data) ==
    LET all == FilterSeq(RequiredFields, {f \in FieldSet : data[f] = Absent})
    IN  IF all = <<>> THEN <<>> ELSE <<Head(all)>>

\* the keys of required_fields that are not in data, in the order of the list
missing_fields(data) ==
    FilterSeq(RequiredFields, {f \in FieldSet : data[f] = Absent})

\* "if not data": an object without any key is falsy
NoData(data) == \A f \in FieldSet : data[f] = Absent

\* the pre-check with the wrong value compared to state_office_token
existing_page_Slip(rows, data) ==
    \E r \in rows :
        /\ r.state_office_token = data.area_served_token
        /\ r.area_served_token = data.area_served_token
        /\ r.service_token = data.service_token

\* OfficePage.query.filter_by(<the triple of data>).first() finds a row
existing_page(rows, data) ==
    \E r \in rows :
        /\ r.state_office_token = data.state_office_token
        /\ r.area_served_token = data.area_served_token
        /\ r.service_token = data.service_token

\* what create_office_page answers before it inserts, or None if it goes on
\* to insert
create_office_page_reject(rows, data) ==
    IF NoData(data)
    THEN ErrorBody("Bad Request", Text("No JSON data provided in request body", <<>>), 400)
    ELSE IF missing_fields(data) # <<>>
    THEN ErrorBody("Bad Request",
                   [text |-> "Missing required fields", fields |-> missing_fields(data)],
                   400)
    ELSE IF existing_page(rows, data)
    THEN ErrorBody("Conflict", Text("Page already exists", Triple(data)), 409)
    ELSE None

\* the tables create_office_page reads before it answers or inserts
create_office_page_reads(data) ==
    IF NoData(data) \/ missing_fields(data) # <<>> THEN {} ELSE {"office_page"}

\* the INSERT of db.session.commit() passes the table's constraints
InsertOk(rows, data) == NotNullOk(data) /\ UniqueOk(rows, data)

\* the answer to an INSERT that raised IntegrityError (except SQLAlchemyError)
create_office_page_db_error ==
    ErrorBody("Database Error",
              Text("A database error occurred while creating the page", <<>>), 500)

\* rows another transaction has written and not yet committed or rolled back
Uncommitted == session.deleted \cup session.added

\* authentication, validation and the existence pre-check
create_office_page_check(c, creds, data) ==
    /\ inflight[c] = Idle
    /\ IF ~login_required(creds)
       THEN /\ response' = Answer("create_office_page", creds, data, auth_error,
                                  AuthQueries, FALSE)
            /\ UNCHANGED inflight
       ELSE LET reject == create_office_page_reject(pages, data)
            IN  IF reject # None
                THEN /\ response' = Answer("create_office_page", creds, data, reject,
                                           AuthQueries \cup create_office_page_reads(data),
                                           TRUE)
                     /\ UNCHANGED inflight
                ELSE /\ inflight' = [inflight EXCEPT
                                        ![c] = [pc |-> "insert", creds |-> creds,
                                                data |-> data]]
                     /\ UNCHANGED response
    /\ UNCHANGED <<users, pages, nextId, created>>
    /\ UNCHANGED importVars

\* db.session.add(new_page); db.session.commit() and the answer.  The INSERT
\* waits while another transaction holds an uncommitted row of the same key.
create_office_page_commit(c) ==
    /\ inflight[c] # Idle
    /\ LET data == inflight[c].data
           creds == inflight[c].creds
       IN  /\ NotNullOk(data) => UniqueOk(Uncommitted, data)
           /\ IF InsertOk(pages, data)
              THEN /\ pages' = pages \cup {OfficePage(nextId, data)}
                   /\ nextId' = nextId + 1
                   /\ created' = created \cup {[data |-> data, id |-> nextId]}
                   /\ response' =
                        Answer("create_office_page", creds, data,
                               [ status |-> 201,
                                 body   |-> [created |->
                                               [ id |-> nextId,
                                                 message |-> "Page created successfully",
                                                 status_code |-> 201 ]] ],
                               AuthQueries \cup {"office_page"}, TRUE)
              ELSE /\ UNCHANGED <<pages, nextId, created>>
                   /\ response' =
                        Failed("create_office_page", creds, data,
                               create_office_page_db_error,
                               AuthQueries \cup {"office_page"}, TRUE, TRUE)
    /\ inflight' = [inflight EXCEPT ![c] = Idle]
    /\ UNCHANGED users
    /\ UNCHANGED importVars

-----------------------------------------------------------------------------
(* the read requests *)

\* a protected GET view: 401 without valid credentials, else one of the
\* results of the view on the committed rows
ProtectedGet(op, creds, args, results) ==
    /\ IF ~login_required(creds)
       THEN response' = Answer(op, creds, args, auth_error, AuthQueries, FALSE)
       ELSE \E result \in results :
                response' = Answer(op, creds, args, result,
                                   AuthQueries \cup {"office_page"}, TRUE)
    /\ UNCHANGED <<users, pages, nextId, inflight, created>>
    /\ UNCHANGED importVars

get_office_page(creds, state_token, office_token, area_served_token, service_token) ==
    ProtectedGet("get_office_page", creds,
                 [ state_token |-> state_token, office_token |-> office_token,
                   area_served_token |-> area_served_token,
                   service_token |-> service_token ],
                 get_office_page_result(pages, state_token, office_token,
                                        area_served_token, service_token))

get_service_info(creds, state_token, area_served_token, service_token) ==
    ProtectedGet("get_service_info", creds,
                 [ state_token |-> state_token,
                   area_served_token |-> area_served_token,
                   service_token |-> service_token ],
                 get_service_info_result(pages, state_token, area_served_token,
                                         service_token))

get_area_services(creds, state_token, office_token, area_served_token) ==
    ProtectedGet("get_area_services", creds,
                 [ state_token |-> state_token, office_token |-> office_token,
                   area_served_token |-> area_served_token ],
                 get_area_services_result(pages, state_token, office_token,
                                          area_served_token))

get_office_sitemap(creds, state_token, office_token) ==
    ProtectedGet("get_office_sitemap", creds,
                 [state_token |-> state_token, office_token |-> office_token],
                 get_office_sitemap_result(pages, state_token, office_token))

get_sitemap_index(creds) ==
    ProtectedGet("get_sitemap_index", creds, NoArgs, get_sitemap_index_result(pages))

\* GET /: no login_required, no query
health_check(creds) ==
    /\ response' = Answer("health_check", creds, NoArgs, health_check_result, {}, TRUE)
    /\ UNCHANGED <<users, pages, nextId, inflight, created>>
    /\ UNCHANGED importVars

-----------------------------------------------------------------------------
(* The service on its own: init_db.py's database, no import running *)

NoSheet == [fetched |-> FALSE]
NoSession == [deleted |-> {}, added |-> {}]
NoSummary == [success_count |-> 0, error_count |-> 0, errors |-> <<>>]

\* import_sheet_to_db not running
MainIdle ==
    [ pc |-> "idle", overall_success |-> TRUE, exit_status |-> 0,
      total_success |-> 0, total_errors |-> 0 ]

\* no franchise-development import has run; the table is empty
FrandevIdle == [sheet |-> NoSheet, pages |-> {}, summary |-> NoSummary]

ImportIdle ==
    /\ main = MainIdle
    /\ frandev = FrandevIdle
    /\ failed_commits = {}
    /\ sheet = NoSheet
    /\ ipc = "idle"
    /\ df = <<>>
    /\ pos = 0
    /\ session = NoSession
    /\ success_count = 0
    /\ error_count = 0
    /\ error_details = <<>>
    /\ batch_success = 0
    /\ batch_errors = 0
    /\ import_summary = NoSummary

\* init_db.py: empty tables and the admin user
InitDb ==
    /\ users = {[ id |-> 1, username |-> "admin",
                  password_hash |-> generate_password_hash("changeme") ]}
    /\ pages = {}
    /\ nextId = 1
    /\ inflight = [c \in Clients |-> Idle]
    /\ response = NoResponse
    /\ created = {}

Init == InitDb /\ ImportIdle

ValidCreds == [username |-> "admin", password |-> "changeme"]

\* a request whose credentials verify_password rejects, to each protected
\* route (its arguments are never looked at)
Unauthenticated(creds) ==
    /\ creds # ValidCreds
    /\ \/ \E c \in Clients : create_office_page_check(c, creds, BodyTA)
       \/ get_office_page(creds, <<"t">>, <<"a">>, <<"m">>, <<"c">>)
       \/ get_service_info(creds, <<"t">>, <<"m">>, <<"c">>)
       \/ get_area_services(creds, <<"t">>, <<"a">>, <<"m">>)
       \/ get_office_sitemap(creds, <<"t">>, <<"a">>)
       \/ get_sitemap_index(creds)

Next ==
    \/ \E c \in Clients, data \in Bodies :
           create_office_page_check(c, ValidCreds, data)
    \/ \E c \in Clients : create_office_page_commit(c)
    \/ \E s \in StateTokens, o \in OfficeTokens, a \in AreaTokens,
          v \in ServiceTokens :
           get_office_page(ValidCreds, s, o, a, v)
    \/ \E s \in RegionTokens, a \in AreaTokens, v \in ServiceTokens :
           get_service_info(ValidCreds, s, a, v)
    \/ \E s \in StateTokens, o \in OfficeTokens, a \in AreaTokens :
           get_area_services(ValidCreds, s, o, a)
    \/ \E s \in StateTokens, o \in OfficeTokens :
           get_office_sitemap(ValidCreds, s, o)
    \/ get_sitemap_index(ValidCreds)
    \/ \E creds \in Credentials : health_check(creds)
    \/ \E creds \in Credentials : Unauthenticated(creds)

Spec == Init /\ [][Next]_vars

-----------------------------------------------------------------------------
(* User administration: create_user.py *)

Usernames == {"admin", "nobody", "editor"}
Passwords == {"changeme", "guess", "s3cret"}

\* the credentials of the requests made while users are administered
UserCredentials ==
    {[username |-> u, password |-> p] : u \in Usernames, p \in Passwords}
    \cup {NoAuth}

\* the id the user table gives a new row
NextUserId == 1 + Cardinality(users)

\* what the script prints
Printed(text, username) ==
    [status |-> 0, body |-> [printed |-> [text |-> text, username |-> username]]]

\* a new record added without the look-up of the username
create_user_Add(username, password) ==
    /\ users' = users \cup {[ id |-> NextUserId, username |-> username,
                             password_hash |-> generate_password_hash(password) ]}
    /\ response' = Answer("create_user", NoAuth,
                          [username |-> username, password |-> password],
                          Printed("created/updated", username), {"user"}, TRUE)
    /\ UNCHANGED <<pages, nextId, inflight, created>>
    /\ UNCHANGED importVars

\* create_user(username, password): set_password on the existing user, or
\* a new user, then commit
create_user(username, password) ==
    /\ LET existing == {u \in users : u.username = username}
       IN  IF existing # {}
           THEN \E existing_user \in existing :
                    users' = (users \ {existing_user})
                             \cup {[existing_user EXCEPT
                                      !.password_hash = generate_password_hash(password)]}
           ELSE users' = users \cup {[ id |-> NextUserId, username |-> username,
                                       password_hash |-> generate_password_hash(password) ]}
    /\ response' = Answer("create_user", NoAuth,
                          [username |-> username, password |-> password],
                          Printed("created/updated", username), {"user"}, TRUE)
    /\ UNCHANGED <<pages, nextId, inflight, created>>
    /\ UNCHANGED importVars

NextUsers ==
    \/ \E username \in Usernames, password \in Passwords :
           create_user(username, password)
    \/ \E creds \in UserCredentials : get_sitemap_index(creds)

SpecUsers == Init /\ [][NextUsers]_vars

-----------------------------------------------------------------------------
(* The service with a data store that can fail during a request *)

\* @app.errorhandler(SQLAlchemyError): rollback, then the answer
handle_db_error ==
    ErrorBody("Database Error",
              Text("A database error occurred while processing your request", <<>>), 500)

\* the "except Exception" answer of the views
internal_server_error ==
    ErrorBody("Internal Server Error",
              Text("An unexpected error occurred while processing your request", <<>>), 500)

\* the "except SQLAlchemyError" answer of get_sitemap_index
get_sitemap_index_db_error ==
    ErrorBody("Database Error",
              Text("A database error occurred while retrieving the sitemap index", <<>>), 500)

ProtectedOps ==
    { "create_office_page", "get_office_page", "get_service_info",
      "get_area_services", "get_office_sitemap", "get_sitemap_index" }

\* User.query raises in verify_password, outside the view's try block: the
\* application's SQLAlchemyError handler answers
verify_password_fails(op, creds) ==
    /\ response' = Failed(op, creds, NoArgs, handle_db_error, AuthQueries, FALSE, TRUE)
    /\ UNCHANGED <<users, pages, nextId, inflight, created>>
    /\ UNCHANGED importVars

\* the query of a GET view raises: the view's except clause answers, and it
\* does not call db.session.rollback()
get_view_fails(op, creds) ==
    /\ op # "create_office_page"
    /\ login_required(creds)
    /\ response' = Failed(op, creds, NoArgs,
                          IF op = "get_sitemap_index"
                          THEN get_sitemap_index_db_error
                          ELSE internal_server_error,
                          AuthQueries \cup {"office_page"}, TRUE, FALSE)
    /\ UNCHANGED <<users, pages, nextId, inflight, created>>
    /\ UNCHANGED importVars

\* the existence pre-check of create_office_page raises
create_office_page_check_fails(c, creds, data) ==
    /\ inflight[c] = Idle
    /\ login_required(creds)
    /\ ~NoData(data)
    /\ missing_fields(data) = <<>>
    /\ response' = Failed("create_office_page", creds, data,
                          create_office_page_db_error,
                          AuthQueries \cup {"office_page"}, TRUE, TRUE)
    /\ UNCHANGED <<users, pages, nextId, inflight, created>>
    /\ UNCHANGED importVars

\* db.session.commit() of create_office_page raises for a reason other than
\* the table's constraints: nothing is stored
create_office_page_commit_fails(c) ==
    /\ inflight[c] # Idle
    /\ response' = Failed("create_office_page", inflight[c].creds, inflight[c].data,
                          create_office_page_db_error,
                          AuthQueries \cup {"office_page"}, TRUE, TRUE)
    /\ inflight' = [inflight EXCEPT ![c] = Idle]
    /\ UNCHANGED <<users, pages, nextId, created>>
    /\ UNCHANGED importVars

NextFaulty ==
    \/ Next
    \/ \E op \in ProtectedOps, creds \in Credentials : verify_password_fails(op, creds)
    \/ \E op \in ProtectedOps : get_view_fails(op, ValidCreds)
    \/ \E c \in Clients, data \in CompleteBodies :
           create_office_page_check_fails(c, ValidCreds, data)
    \/ \E c \in Clients : create_office_page_commit_fails(c)

SpecFaulty == Init /\ [][NextFaulty]_vars

-----------------------------------------------------------------------------
(* The importer: import_office_sheet *)

\* the longest sheet the source returns
MaxRows == 4

\* batch_size of import_office_sheet, scaled down from the source's 50 so
\* that a sheet of MaxRows rows spans more than one batch
batch_size == 3

\* a sheet row with every required column
Row(sot, st, content) ==
    [ state_office_token |-> sot,
      area_served_token  |-> <<"m">>,
      service_token      |-> st,
      meta_title         |-> <<"T">>,
      meta_description   |-> <<"D">>,
      page_title         |-> <<"P">>,
      page_content       |-> content ]

\* the rows a sheet is made of: two rows of one key with different content,
\* a second key, a key that differs only by a trailing blank, a blank key,
\* and a row whose last cell is missing
RowPool ==
    { Row(<<"t", "/", "a">>, <<"c">>, <<"x">>),
      Row(<<"t", "/", "a">>, <<"c">>, <<"y">>),
      Row(<<"t", "/", "b">>, <<"c">>, <<"x">>),
      Row(<<"t", "/", "a", " ">>, <<"c">>, <<"x">>),
      Row(<<" ">>, <<"c">>, <<"x">>),
      Row(<<"t", "/", "b">>, <<"c">>, Null) }

RowSeqs(pool, n) == UNION {[1..k -> pool] : k \in 0..n}

\* what get_sheet_data can return: a table with the required columns, a
\* table without the page_content column, or a failed download
Sheets(pool, n) ==
    { [fetched |-> TRUE, columns |-> FieldSet, rows |-> rows]
        : rows \in RowSeqs(pool, n) }
    \cup { [ fetched |-> TRUE, columns |-> FieldSet \ {"page_content"},
             rows |-> <<Row(<<"t", "/", "a">>, <<"c">>, Null)>> ],
           [fetched |-> FALSE, columns |-> {}, rows |-> <<>>] }

\* duplicated(subset=constraint_columns): an earlier row has the same key
duplicated_Subset(rows, i) ==
    \E j \in 1..(i - 1) : Triple(rows[j]) = Triple(rows[i])

\* df.duplicated(): the row at position i equals an earlier row in every column
duplicated(rows, i) == \E j \in 1..(i - 1) : rows[j] = rows[i]

\* the positions of rows that drop_duplicates() keeps, in order
RECURSIVE KeptFrom(_, _)
KeptFrom(rows, i) ==
    IF i > Len(rows) THEN <<>>
    ELSE IF duplicated(rows, i)
         THEN KeptFrom(rows, i + 1)
         ELSE <<i>> \o KeptFrom(rows, i + 1)

\* the index reset after the duplicates are dropped: labels 0, 1, 2, ...
deduplicate_data_Renumbered(rows) ==
    LET kept == KeptFrom(rows, 1)
    IN  [k \in DOMAIN kept |-> [idx |-> k - 1, row |-> rows[kept[k]]]]

\* deduplicate_data: the first occurrences, each with its index label (the
\* 0-based position reset_index gave it)
deduplicate_data(rows) ==
    LET kept == KeptFrom(rows, 1)
    IN  [k \in DOMAIN kept |-> [idx |-> kept[k] - 1, row |-> rows[kept[k]]]]

\* row.fillna('')
fillna(cell) == IF cell = Null THEN <<>> ELSE cell

\* str.strip()
RECURSIVE lstrip(_)
lstrip(s) == IF s # <<>> /\ Head(s) = " " THEN lstrip(Tail(s)) ELSE s

RECURSIVE rstrip(_)
rstrip(s) ==
    IF s # <<>> /\ s[Len(s)] = " " THEN rstrip(SubSeq(s, 1, Len(s) - 1)) ELSE s

strip(s) == rstrip(lstrip(s))

\* str(row[field]).strip() after fillna
cell(row, field) == strip(fillna(row[field]))

\* the required fields that are empty after trimming, in order
empty_required_fields(row) ==
    FilterSeq(RequiredFields, {f \in FieldSet : cell(row, f) = <<>>})

\* the values the OfficePage of a row is built from
row_data(row) == [f \in FieldSet |-> cell(row, f)]

\* the rows the importer's transaction sees
Visible == (pages \ session.deleted) \cup session.added

\* the required-columns check made after the pages have been deleted
import_office_sheet_fetch_Late(source) ==
    /\ ipc = "start"
    /\ sheet' = source
    /\ IF ~source.fetched
       THEN /\ ipc' = "aborted"
            /\ UNCHANGED <<df, pages>>
       ELSE IF ~(FieldSet \subseteq source.columns)
       THEN /\ ipc' = "aborted"
            /\ pages' = {}
            /\ UNCHANGED df
       ELSE /\ ipc' = "delete"
            /\ df' = deduplicate_data(source.rows)
            /\ UNCHANGED pages
    /\ UNCHANGED <<pos, session, success_count, error_count, error_details,
                   batch_success, batch_errors, import_summary, main,
                   failed_commits, frandev>>
    /\ UNCHANGED <<users, nextId, inflight, response, created>>

\* get_sheet_data, reset_index, the required-columns check, deduplicate_data
import_office_sheet_fetch(source) ==
    /\ ipc = "start"
    /\ sheet' = source
    /\ IF ~source.fetched \/ ~(FieldSet \subseteq source.columns)
       THEN /\ ipc' = "aborted"
            /\ UNCHANGED df
       ELSE /\ ipc' = "delete"
            /\ df' = deduplicate_data(source.rows)
    /\ UNCHANGED <<pos, session, success_count, error_count, error_details,
                   batch_success, batch_errors, import_summary, main, failed_commits, frandev>>
    /\ UNCHANGED apiVars

\* the rows of the current batch are all processed when pos reaches end_idx
BatchEnds(p) == p = Len(df) \/ p % batch_size = 0

\* OfficePage.query.delete(), in the session's transaction; with
\* total_batches = 0 the loop is skipped
import_office_sheet_delete ==
    /\ ipc = "delete"
    /\ session' = [deleted |-> pages, added |-> {}]
    /\ success_count' = 0
    /\ error_count' = 0
    /\ error_details' = <<>>
    /\ batch_success' = 0
    /\ batch_errors' = 0
    /\ pos' = 0
    /\ ipc' = IF Len(df) = 0 THEN "summary" ELSE "row"
    /\ UNCHANGED <<sheet, df, import_summary, main, failed_commits, frandev>>
    /\ UNCHANGED apiVars

ErrorEntry(sheet_row_num, type, details) ==
    [row |-> sheet_row_num, type |-> type, details |-> details]

\* one iteration of "for df_idx, row in batch.iterrows()"
import_office_sheet_row ==
    /\ ipc = "row"
    /\ LET df_idx == df[pos + 1].idx
           row == df[pos + 1].row
           sheet_row_num == df_idx + 2
           empty == empty_required_fields(row)
       IN  IF empty # <<>>
           THEN \* Empty Required Fields: continue
                /\ error_details' = Append(error_details,
                        ErrorEntry(sheet_row_num, "Empty Required Fields", empty))
                /\ batch_errors' = batch_errors + 1
                /\ error_count' = error_count + 1
                /\ UNCHANGED <<session, nextId, batch_success, success_count>>
           ELSE IF UniqueOk(Visible, row_data(row))
           THEN \* db.session.add(office_page); db.session.flush()
                /\ session' = [session EXCEPT
                                  !.added = @ \cup {OfficePage(nextId, row_data(row))}]
                /\ nextId' = nextId + 1
                /\ batch_success' = batch_success + 1
                /\ success_count' = success_count + 1
                /\ UNCHANGED <<error_details, batch_errors, error_count>>
           ELSE \* except IntegrityError: db.session.rollback()
                /\ session' = NoSession
                /\ error_details' = Append(error_details,
                        ErrorEntry(sheet_row_num, "Duplicate Key Constraint",
                                   Triple(row)))
                /\ batch_errors' = batch_errors + 1
                /\ error_count' = error_count + 1
                /\ UNCHANGED <<nextId, batch_success, success_count>>
    /\ pos' = pos + 1
    /\ ipc' = IF BatchEnds(pos + 1) THEN "commit" ELSE "row"
    /\ UNCHANGED <<sheet, df, import_summary, main, failed_commits, frandev>>
    /\ UNCHANGED <<users, pages, inflight, response, created>>

\* db.session.commit() at the end of a batch, then the next batch
import_office_sheet_commit ==
    /\ ipc = "commit"
    /\ pages' = (pages \ session.deleted) \cup session.added
    /\ session' = NoSession
    /\ batch_success' = 0
    /\ batch_errors' = 0
    /\ ipc' = IF pos = Len(df) THEN "summary" ELSE "row"
    /\ UNCHANGED <<sheet, df, pos, success_count, error_count, error_details,
                   import_summary, main, failed_commits, frandev>>
    /\ UNCHANGED <<users, nextId, inflight, response, created>>

\* the update of import_summary; leaving app.app_context() removes the
\* session, which rolls back what it has not committed
import_office_sheet_summary ==
    /\ ipc = "summary"
    /\ import_summary' = [ success_count |-> success_count,
                           error_count   |-> error_count,
                           errors        |-> error_details ]
    /\ session' = NoSession
    /\ ipc' = "done"
    /\ UNCHANGED <<sheet, df, pos, success_count, error_count, error_details,
                   batch_success, batch_errors, main, failed_commits, frandev>>
    /\ UNCHANGED apiVars

\* the unexpected error of a row caught by no "except": it ends the run
import_office_sheet_row_fails_Raise ==
    /\ ipc = "row"
    /\ empty_required_fields(df[pos + 1].row) = <<>>
    /\ session' = NoSession
    /\ ipc' = "aborted"
    /\ UNCHANGED <<sheet, df, pos, success_count, error_count, error_details,
                   batch_success, batch_errors, import_summary, main,
                   failed_commits, frandev>>
    /\ UNCHANGED apiVars

\* one iteration in which add or flush raises an error other than
\* IntegrityError: "except Exception" rolls the session back and records an
\* 'Unexpected Error'
import_office_sheet_row_fails ==
    /\ ipc = "row"
    /\ empty_required_fields(df[pos + 1].row) = <<>>
    /\ session' = NoSession
    /\ error_details' = Append(error_details,
            ErrorEntry(df[pos + 1].idx + 2, "Unexpected Error", <<>>))
    /\ batch_errors' = batch_errors + 1
    /\ error_count' = error_count + 1
    /\ pos' = pos + 1
    /\ ipc' = IF BatchEnds(pos + 1) THEN "commit" ELSE "row"
    /\ UNCHANGED <<sheet, df, success_count, batch_success, import_summary, main,
                   failed_commits, frandev>>
    /\ UNCHANGED apiVars

\* the failed commit that counts the staged rows as errors and as successes
import_office_sheet_commit_fails_Double ==
    /\ ipc = "commit"
    /\ session' = NoSession
    /\ failed_commits' = failed_commits \cup {pos}
    /\ error_count' = error_count + batch_success
    /\ batch_success' = 0
    /\ batch_errors' = 0
    /\ ipc' = IF pos = Len(df) THEN "summary" ELSE "row"
    /\ UNCHANGED <<sheet, df, pos, success_count, error_details, import_summary,
                   main, frandev>>
    /\ UNCHANGED apiVars

\* the failed commit that leaves the counts as they are
import_office_sheet_commit_fails_Keep ==
    /\ ipc = "commit"
    /\ session' = NoSession
    /\ failed_commits' = failed_commits \cup {pos}
    /\ batch_success' = 0
    /\ batch_errors' = 0
    /\ ipc' = IF pos = Len(df) THEN "summary" ELSE "row"
    /\ UNCHANGED <<sheet, df, pos, success_count, error_count, error_details,
                   import_summary, main, frandev>>
    /\ UNCHANGED apiVars

\* db.session.commit() at the end of a batch raises: rollback, the rows
\* that staged are counted as errors, then the next batch
import_office_sheet_commit_fails ==
    /\ ipc = "commit"
    /\ session' = NoSession
    /\ failed_commits' = failed_commits \cup {pos}
    /\ error_count' = error_count + batch_success
    /\ success_count' = success_count - batch_success
    /\ batch_success' = 0
    /\ batch_errors' = 0
    /\ ipc' = IF pos = Len(df) THEN "summary" ELSE "row"
    /\ UNCHANGED <<sheet, df, pos, error_details, import_summary, main, frandev>>
    /\ UNCHANGED apiVars

ImportStart ==
    /\ main = [MainIdle EXCEPT !.pc = "office"]
    /\ frandev = FrandevIdle
    /\ failed_commits = {}
    /\ sheet = NoSheet
    /\ ipc = "start"
    /\ df = <<>>
    /\ pos = 0
    /\ session = NoSession
    /\ success_count = 0
    /\ error_count = 0
    /\ error_details = <<>>
    /\ batch_success = 0
    /\ batch_errors = 0
    /\ import_summary = NoSummary

\* the page a create-page request stored before the import runs
OldPage == OfficePage(1, Body(<<"t", "/", "a">>, <<"m">>, <<"c">>, <<"P">>, <<"o">>))

\* the importer started on a database that is empty or holds one page
InitImport ==
    /\ users = {[ id |-> 1, username |-> "admin",
                  password_hash |-> generate_password_hash("changeme") ]}
    /\ \/ pages = {} /\ nextId = 1 /\ created = {}
       \/ /\ pages = {OldPage}
          /\ nextId = 2
          /\ created = {[ data |-> Body(<<"t", "/", "a">>, <<"m">>, <<"c">>,
                                        <<"P">>, <<"o">>),
                          id |-> 1 ]}
    /\ inflight = [c \in Clients |-> Idle]
    /\ response = NoResponse
    /\ ImportStart

NextImport ==
    \/ \E source \in Sheets(RowPool, MaxRows) : import_office_sheet_fetch(source)
    \/ import_office_sheet_delete
    \/ import_office_sheet_row
    \/ import_office_sheet_commit
    \/ import_office_sheet_summary

SpecImport == InitImport /\ [][NextImport]_vars

\* the rows of the sheets of the runs in which the data store can fail
FaultPool ==
    { Row(<<"t", "/", "a">>, <<"c">>, <<"x">>),
      Row(<<"t", "/", "a">>, <<"c">>, <<"y">>),
      Row(<<"t", "/", "b">>, <<"c">>, <<"x">>),
      Row(<<" ">>, <<"c">>, <<"x">>) }

\* the steps of a started import run, data store errors included
ImportStep ==
    \/ import_office_sheet_delete
    \/ import_office_sheet_row
    \/ import_office_sheet_row_fails
    \/ import_office_sheet_commit
    \/ import_office_sheet_commit_fails
    \/ import_office_sheet_summary

NextImportFaulty ==
    \/ \E source \in Sheets(FaultPool, MaxRows) : import_office_sheet_fetch(source)
    \/ ImportStep

\* the importer runs on: a step that can be taken is taken
SpecImportFaulty ==
    InitImport /\ [][NextImportFaulty]_vars /\ WF_vars(ImportStep)

-----------------------------------------------------------------------------
(* The importer process: import_sheet_to_db run as a script *)

FrandevColumns ==
    { "state_token", "city_token", "clai_page_token", "meta_title",
      "meta_description", "page_title", "page_content", "link_label" }

\* the longest "Fran Dev" tab the source returns
MaxFrandevRows == 2

\* a row of the "Fran Dev" tab
FrandevRow(state_token, link_label) ==
    [ state_token      |-> state_token,
      city_token       |-> <<"k">>,
      clai_page_token  |-> <<"p">>,
      meta_title       |-> <<"T">>,
      meta_description |-> <<"D">>,
      page_title       |-> <<"P">>,
      page_content     |-> <<"x">>,
      link_label       |-> link_label ]

\* two rows of one key with different labels, and a row with a blank key
FrandevPool ==
    { FrandevRow(<<"s">>, <<"L">>),
      FrandevRow(<<"s">>, Null),
      FrandevRow(<<" ">>, <<"L">>) }

\* what get_sheet_data can return for the "Fran Dev" tab: a table with the
\* required columns, a table without the link_label column, or a failed
\* download
FrandevSheets ==
    { [fetched |-> TRUE, columns |-> FrandevColumns, rows |-> rows]
        : rows \in RowSeqs(FrandevPool, MaxFrandevRows) }
    \cup { [fetched |-> TRUE, columns |-> FrandevColumns \ {"link_label"}, rows |-> <<>>],
           [fetched |-> FALSE, columns |-> {}, rows |-> <<>>] }

\* import_frandev_sheet raises: the download failed or a column is missing
import_frandev_sheet_raises(source) ==
    ~source.fetched \/ ~(FrandevColumns \subseteq source.columns)

\* the values of os.environ.get("GOOGLE_API_KEY")
ApiKeys == {<<"k">>, <<>>, Null}

\* the start of import_sheet_to_db: without an API key it raises ValueError,
\* which nothing catches, so the interpreter exits with status 1; else
\* import_office_sheet is called
import_sheet_to_db_start(api_key) ==
    /\ main.pc = "start"
    /\ IF api_key = Null \/ api_key = <<>>
       THEN /\ main' = [main EXCEPT !.pc = "exited", !.exit_status = 1]
            /\ UNCHANGED ipc
       ELSE /\ main' = [main EXCEPT !.pc = "office"]
            /\ ipc' = "start"
    /\ UNCHANGED <<sheet, df, pos, session, success_count, error_count,
                   error_details, batch_success, batch_errors, import_summary,
                   failed_commits, frandev>>
    /\ UNCHANGED apiVars

FrandevKeyFields == <<"state_token", "city_token", "clai_page_token">>

\* str(row[field]).strip() after fillna; for the other columns
\* "str(row[f]).strip() if row.get(f) else ''", which gives the same value
frandev_cell(row, field) == strip(fillna(row[field]))

\* the row of the table that the FrandevPage of a sheet row becomes
FrandevPage(id, row) ==
    [ id               |-> id,
      state_token      |-> frandev_cell(row, "state_token"),
      city_token       |-> frandev_cell(row, "city_token"),
      clai_page_token  |-> frandev_cell(row, "clai_page_token"),
      meta_title       |-> frandev_cell(row, "meta_title"),
      meta_description |-> frandev_cell(row, "meta_description"),
      page_title       |-> frandev_cell(row, "page_title"),
      page_content     |-> frandev_cell(row, "page_content"),
      link_label       |-> frandev_cell(row, "link_label") ]

\* UNIQUE(state_token, city_token, clai_page_token)
FrandevKey(r) == <<r.state_token, r.city_token, r.clai_page_token>>

\* after FrandevPage.query.delete(): the table, the session's transaction
\* and the counts
FrandevStart(table) ==
    [ pages |-> table, deleted |-> table, added |-> {},
      success_count |-> 0, error_count |-> 0, errors |-> <<>> ]

\* one iteration of the row loop of import_frandev_sheet
frandev_row(st, entry) ==
    LET row == entry.row
        sheet_row_num == entry.idx + 2
        empty == FilterSeq(FrandevKeyFields,
                           {f \in Range(FrandevKeyFields) : frandev_cell(row, f) = <<>>})
        frandev_page == FrandevPage(entry.idx + 1, row)
        visible == (st.pages \ st.deleted) \cup st.added
    IN  IF empty # <<>>
        THEN [st EXCEPT !.error_count = @ + 1,
                        !.errors = Append(@, ErrorEntry(sheet_row_num,
                                                        "Empty Required Fields", empty))]
        ELSE IF \A r \in visible : FrandevKey(r) # FrandevKey(frandev_page)
        THEN [st EXCEPT !.added = @ \cup {frandev_page},
                        !.success_count = @ + 1]
        ELSE [st EXCEPT !.deleted = {}, !.added = {},
                        !.error_count = @ + 1,
                        !.errors = Append(@, ErrorEntry(sheet_row_num,
                                            "Duplicate Key Constraint",
                                            <<row.state_token, row.city_token,
                                              row.clai_page_token>>))]

\* db.session.commit() at the end of a batch
frandev_commit(st) ==
    [st EXCEPT !.pages = (st.pages \ st.deleted) \cup st.added,
               !.deleted = {}, !.added = {}]

\* the batches of import_frandev_sheet from the row at position k on
RECURSIVE frandev_rows(_, _, _)
frandev_rows(fdf, k, st) ==
    IF k > Len(fdf) THEN st
    ELSE LET staged == frandev_row(st, fdf[k])
         IN  frandev_rows(fdf, k + 1,
                          IF k = Len(fdf) \/ k % batch_size = 0
                          THEN frandev_commit(staged)
                          ELSE staged)

\* import_frandev_sheet on a tab that passes the column check: the table
\* and the summary it leaves
import_frandev_sheet(table, source) ==
    LET st == frandev_rows(deduplicate_data(source.rows), 1, FrandevStart(table))
    IN  [ sheet   |-> source,
          pages   |-> st.pages,
          summary |-> [ success_count |-> st.success_count,
                        error_count   |-> st.error_count,
                        errors        |-> st.errors ] ]

\* the second import left out when the first one raised
import_sheet_to_db_frandev_Skipped(source) ==
    /\ main.pc = "office"
    /\ ipc \in {"done", "aborted"}
    /\ main' = [main EXCEPT
                   !.pc = "summary",
                   !.overall_success =
                       /\ ipc = "done"
                       /\ ~import_frandev_sheet_raises(source)]
    /\ frandev' = IF ipc = "aborted" THEN frandev
                  ELSE IF import_frandev_sheet_raises(source)
                  THEN [frandev EXCEPT !.sheet = source]
                  ELSE import_frandev_sheet(frandev.pages, source)
    /\ UNCHANGED <<sheet, ipc, df, pos, session, success_count, error_count,
                   error_details, batch_success, batch_errors, import_summary,
                   failed_commits>>
    /\ UNCHANGED apiVars

\* import_office_sheet has returned or raised; then import_frandev_sheet,
\* which raises or replaces the table and sets import_summary['frandev']
import_sheet_to_db_frandev(source) ==
    /\ main.pc = "office"
    /\ ipc \in {"done", "aborted"}
    /\ main' = [main EXCEPT
                   !.pc = "summary",
                   !.overall_success =
                       /\ ipc = "done"
                       /\ ~import_frandev_sheet_raises(source)]
    /\ frandev' = IF import_frandev_sheet_raises(source)
                  THEN [frandev EXCEPT !.sheet = source]
                  ELSE import_frandev_sheet(frandev.pages, source)
    /\ UNCHANGED <<sheet, ipc, df, pos, session, success_count, error_count,
                   error_details, batch_success, batch_errors, import_summary,
                   failed_commits>>
    /\ UNCHANGED apiVars

\* print_final_summary with its totals, "return overall_success", and the
\* end of the script: the returned value is dropped and the interpreter
\* exits with status 0
import_sheet_to_db_exit ==
    /\ main.pc = "summary"
    /\ main' = [main EXCEPT
                   !.pc = "exited", !.exit_status = 0,
                   !.total_success = import_summary.success_count
                                     + frandev.summary.success_count,
                   !.total_errors = import_summary.error_count
                                    + frandev.summary.error_count]
    /\ UNCHANGED <<sheet, ipc, df, pos, session, success_count, error_count,
                   error_details, batch_success, batch_errors, import_summary,
                   failed_commits, frandev>>
    /\ UNCHANGED apiVars

\* the franchise-development page stored by an earlier run
OldFrandevPage == FrandevPage(0, FrandevRow(<<"s">>, <<"O">>))

\* the rows of Sheet1 in the runs of the whole script
ProcessPool ==
    { Row(<<"t", "/", "a">>, <<"c">>, <<"x">>),
      Row(<<"t", "/", "a">>, <<"c">>, <<"y">>),
      Row(<<" ">>, <<"c">>, <<"x">>) }

\* the script started on a database that is empty or holds one page
InitProcess ==
    /\ users = {[ id |-> 1, username |-> "admin",
                  password_hash |-> generate_password_hash("changeme") ]}
    /\ \/ pages = {} /\ nextId = 1 /\ created = {}
       \/ /\ pages = {OldPage}
          /\ nextId = 2
          /\ created = {[ data |-> Body(<<"t", "/", "a">>, <<"m">>, <<"c">>,
                                        <<"P">>, <<"o">>),
                          id |-> 1 ]}
    /\ inflight = [c \in Clients |-> Idle]
    /\ response = NoResponse
    /\ main = [MainIdle EXCEPT !.pc = "start"]
    /\ frandev \in {FrandevIdle, [FrandevIdle EXCEPT !.pages = {OldFrandevPage}]}
    /\ failed_commits = {}
    /\ sheet = NoSheet
    /\ ipc = "idle"
    /\ df = <<>>
    /\ pos = 0
    /\ session = NoSession
    /\ success_count = 0
    /\ error_count = 0
    /\ error_details = <<>>
    /\ batch_success = 0
    /\ batch_errors = 0
    /\ import_summary = NoSummary

NextProcess ==
    \/ \E api_key \in ApiKeys : import_sheet_to_db_start(api_key)
    \/ \E source \in Sheets(ProcessPool, MaxRows) : import_office_sheet_fetch(source)
    \/ import_office_sheet_delete
    \/ import_office_sheet_row
    \/ import_office_sheet_commit
    \/ import_office_sheet_summary
    \/ \E source \in FrandevSheets : import_sheet_to_db_frandev(source)
    \/ import_sheet_to_db_exit

SpecProcess == InitProcess /\ [][NextProcess]_vars

-----------------------------------------------------------------------------
(* The service and the importer on one database *)

\* the bodies and rows of the shared runs: one key written by both sides
\* with different content, and a second key
MaxSharedRows == 2

SharedBodies ==
    { BodyTA,
      Body(<<"t", "/", "a">>, <<"m">>, <<"c">>, <<"P">>, <<"y">>) }

SharedPool ==
    { Row(<<"t", "/", "a">>, <<"c">>, <<"x">>),
      Row(<<"t", "/", "a", " ">>, <<"c">>, <<"x">>),
      Row(<<"t", "/", "b">>, <<"c">>, <<"x">>) }

InitShared == InitDb /\ ImportStart

NextShared ==
    \/ \E c \in Clients, data \in SharedBodies :
           create_office_page_check(c, ValidCreds, data)
    \/ \E c \in Clients : create_office_page_commit(c)
    \/ \E source \in Sheets(SharedPool, MaxSharedRows) :
           import_office_sheet_fetch(source)
    \/ import_office_sheet_delete
    \/ import_office_sheet_row
    \/ import_office_sheet_commit
    \/ import_office_sheet_summary

SpecShared == InitShared /\ [][NextShared]_vars

-----------------------------------------------------------------------------
(* Properties *)

\* the request answered by this step, if the step answers one
Answered == response' # response

\* the credentials name a user of the table with that user's password
Authentic(creds) ==
    \E u \in users :
        /\ u.username = creds.username
        /\ u.password_hash = generate_password_hash(creds.password)

\* the seven submitted values of a body or a row, as a page without id
Content(r) == [f \in FieldSet |-> r[f]]

\* sot is state_token, a slash, office_token
SlashJoined(sot, state_token, office_token) ==
    /\ Len(sot) = Len(state_token) + 1 + Len(office_token)
    /\ SubSeq(sot, 1, Len(state_token)) = state_token
    /\ sot[Len(state_token) + 1] = "/"
    /\ SubSeq(sot, Len(state_token) + 2, Len(sot)) = office_token

\* the keys a body does not have
Lacking(data) == {f \in FieldSet : data[f] = Absent}

\* C1: no two committed pages share the triple (state_office_token,
\* area_served_token, service_token), whatever the interleaving of
\* create-page requests and importer inserts.
C1_TripleUnique ==
    \A r1, r2 \in pages : Triple(r1) = Triple(r2) => r1 = r2

\* C1 witness: the importer has committed its rows and a create-page request
\* that had passed the pre-check lost against a stored key.
C1_Witness ==
    /\ ipc = "done"
    /\ Cardinality(pages) >= 2
    /\ response # NoResponse
    /\ response.status = 500

\* C2: a create-page request for a triple that an earlier create-page stored
\* is answered 409, and the stored page keeps the id and the content of the
\* first create.
C2_SecondCreateConflicts ==
    [][ \A first \in created :
        /\ \A c \in Clients :
              inflight[c] = Idle /\ inflight'[c] # Idle
              => Triple(inflight'[c].data) # Triple(first.data)
        /\ ( /\ Answered
              /\ response'.op = "create_office_page"
              /\ Authentic(response'.creds)
              /\ Lacking(response'.args) = {}
              /\ Triple(response'.args) = Triple(first.data)
              /\ \A c \in Clients : inflight[c] = inflight'[c] )
            => /\ response'.status = 409
               /\ pages' = pages
               /\ \A r \in pages' :
                      Triple(r) = Triple(first.data)
                      => r.id = first.id /\ Content(r) = Content(first.data) ]_vars

\* C2 witness: a second create of a stored triple, with other content, was
\* answered 409.
C2_Witness ==
    /\ response # NoResponse
    /\ response.op = "create_office_page"
    /\ response.status = 409
    /\ \E first \in created :
          /\ Triple(first.data) = Triple(response.args)
          /\ first.data # response.args


\* C3: after a create-page answered 201, a fetch of the single page by the
\* same triple is answered 200 with the seven submitted values and the id
\* the create returned.
C3_FetchReturnsCreated ==
    [][ \A first \in created :
          ( /\ Answered
            /\ response'.op = "get_office_page"
            /\ Authentic(response'.creds)
            /\ SlashJoined(first.data.state_office_token,
                           response'.args.state_token, response'.args.office_token)
            /\ first.data.area_served_token = response'.args.area_served_token
            /\ first.data.service_token = response'.args.service_token )
          => /\ response'.status = 200
             /\ response'.body =
                  [page |-> [ id                 |-> first.id,
                              state_office_token |-> first.data.state_office_token,
                              area_served_token  |-> first.data.area_served_token,
                              service_token      |-> first.data.service_token,
                              meta_title         |-> first.data.meta_title,
                              meta_description   |-> first.data.meta_description,
                              page_title         |-> first.data.page_title,
                              page_content       |-> first.data.page_content ]] ]_vars

\* C3 witness: a page created second (id 2) was fetched with 200.
C3_Witness ==
    /\ response # NoResponse
    /\ response.op = "get_office_page"
    /\ response.status = 200
    /\ \E first \in created : first.id = 2 /\ response.body.page.id = 2

\* C4 as stated: a protected request without valid credentials is answered
\* 401, the view does not run, and the data store is not queried at all.
C4_Original ==
    [][ ( /\ Answered
          /\ response'.op # "health_check"
          /\ ~Authentic(response'.creds) )
        => /\ response'.status = 401
           /\ ~response'.handler_ran
           /\ response'.queried = {}
           /\ pages' = pages ]_vars

\* C4, amended: a protected request without valid credentials is answered
\* 401 and the view does not run: no page is read or written; the one query
\* made is verify_password's lookup in the user table.
C4_UnauthenticatedNoPageAccess ==
    [][ ( /\ Answered
          /\ response'.op # "health_check"
          /\ ~Authentic(response'.creds) )
        => /\ response'.status = 401
           /\ ~response'.handler_ran
           /\ response'.queried = {"user"}
           /\ pages' = pages
           /\ nextId' = nextId
           /\ inflight' = inflight
           /\ created' = created ]_vars

\* C4 witness: a create-page request without an Authorization header was
\* answered 401 while the table holds a page.
C4_Witness ==
    /\ response # NoResponse
    /\ response.op = "create_office_page"
    /\ response.creds = NoAuth
    /\ response.status = 401
    /\ pages # {}

\* the response is the 400 that names exactly the fields in S, each once
NamesMissing(resp, S) ==
    /\ resp.status = 400
    /\ DOMAIN resp.body = {"error"}
    /\ resp.body.error.error = "Bad Request"
    /\ resp.body.error.status_code = 400
    /\ DOMAIN resp.body.error.message = {"text", "fields"}
    /\ resp.body.error.message.text = "Missing required fields"
    /\ Range(resp.body.error.message.fields) = S
    /\ Len(resp.body.error.message.fields) = Cardinality(S)

HasEmptyField(data) == \E f \in FieldSet : data[f] = <<>> \/ data[f] = Null

\* C8 as stated: a create-page body with a required field present but empty
\* is answered 400 and no page is inserted from it.
C8_Original ==
    /\ ( /\ response # NoResponse
         /\ response.op = "create_office_page"
         /\ Authentic(response.creds)
         /\ HasEmptyField(response.args) )
       => response.status = 400
    /\ \A c \in created : ~HasEmptyField(c.data)

\* C9 as stated: of two concurrent create-page requests for one triple, the
\* one that inserts first is answered 201 and the one whose insert collides
\* with the stored key is answered 409.
C9_Original ==
    [][ \A c \in Clients :
          ( /\ inflight[c] # Idle
            /\ inflight'[c] = Idle
            /\ NotNullOk(inflight[c].data) )
          => IF \E r \in pages : Triple(r) = Triple(inflight[c].data)
             THEN response'.status = 409 /\ pages' = pages
             ELSE response'.status = 201 ]_vars

\* C10: fetch-single-page answers 200 exactly when a stored page has the
\* state_office_token "<state>/<office>" and the area and service tokens of
\* the path, and 404 otherwise.
C10_FetchExactMatch ==
    [][ ( /\ Answered
          /\ response'.op = "get_office_page"
          /\ Authentic(response'.creds) )
        => LET args == response'.args
               match == \E r \in pages :
                           /\ SlashJoined(r.state_office_token,
                                          args.state_token, args.office_token)
                           /\ r.area_served_token = args.area_served_token
                           /\ r.service_token = args.service_token
           IN  /\ match => response'.status = 200
               /\ ~match => response'.status = 404 ]_vars

\* the number of path tokens in which the request differs from the page r
Differing(r, args) ==
    Cardinality(
      {k \in {"state", "office", "area", "service"} :
         \/ k = "state" /\ \A o \in OfficeTokens :
                ~SlashJoined(r.state_office_token, args.state_token, o)
         \/ k = "office" /\ \A st \in StateTokens :
                ~SlashJoined(r.state_office_token, st, args.office_token)
         \/ k = "area" /\ r.area_served_token # args.area_served_token
         \/ k = "service" /\ r.service_token # args.service_token})

\* C10 witness: a fetch that differs from a stored page in the state token
\* alone was answered 404.
C10_Witness ==
    /\ response # NoResponse
    /\ response.op = "get_office_page"
    /\ response.status = 404
    /\ \E r \in pages :
          /\ Differing(r, response.args) = 1
          /\ \A o \in OfficeTokens :
                ~SlashJoined(r.state_office_token, response.args.state_token, o)


\* every required cell of every row of the sheet is non-empty after trimming
AllFilled == \A i \in DOMAIN sheet.rows : empty_required_fields(sheet.rows[i]) = <<>>

\* K: the rows of the sheet that repeat an earlier row in every column
ExactDuplicates == {i \in DOMAIN sheet.rows : duplicated(sheet.rows, i)}

\* the trimmed key of a row
RowKey(row) == Triple(row_data(row))

\* M: the remaining rows whose key an earlier remaining row already has
KeyViolators ==
    {i \in DOMAIN sheet.rows \ ExactDuplicates :
        \E j \in 1..(i - 1) :
            j \notin ExactDuplicates /\ RowKey(sheet.rows[j]) = RowKey(sheet.rows[i])}

\* C5 as stated, for a sheet of at least one row: with N rows, K exact
\* duplicates, M key violations and no empty required cell, the run reports
\* N-K-M successes and M failures, all of category 'Duplicate Key
\* Constraint', and the table holds N-K-M rows.
C5_Original ==
    (ipc = "done" /\ AllFilled /\ Len(sheet.rows) > 0)
    => LET N == Len(sheet.rows)
           K == Cardinality(ExactDuplicates)
           M == Cardinality(KeyViolators)
       IN  /\ import_summary.success_count = N - K - M
           /\ import_summary.error_count = M
           /\ Len(import_summary.errors) = M
           /\ \A e \in DOMAIN import_summary.errors :
                  import_summary.errors[e].type = "Duplicate Key Constraint"
           /\ Cardinality(pages) = N - K - M

\* the rows of df at positions j, k are processed in the same batch
SameBatch(j, k) == (j - 1) \div batch_size = (k - 1) \div batch_size

\* the row of df at position j has no empty required cell and a key that no
\* earlier such row of df has
ValidRow(j) ==
    /\ empty_required_fields(df[j].row) = <<>>
    /\ \A i \in 1..(j - 1) :
          empty_required_fields(df[i].row) = <<>>
          => RowKey(df[i].row) # RowKey(df[j].row)

\* the table holds a page with the values of the row
InTable(row) == \E r \in pages : Content(r) = row_data(row)

\* C6 as stated: a row with an empty required field is reported as 'Empty
\* Required Fields', is not in the resulting table, and every other valid
\* row of its batch is committed.
C6_Original ==
    ipc = "done"
    => \A k \in DOMAIN df :
          empty_required_fields(df[k].row) # <<>>
          => /\ \E e \in DOMAIN import_summary.errors :
                   /\ import_summary.errors[e].row = df[k].idx + 2
                   /\ import_summary.errors[e].type = "Empty Required Fields"
             /\ ~InTable(df[k].row)
             /\ \A j \in DOMAIN df :
                   (j # k /\ SameBatch(j, k) /\ ValidRow(j)) => InTable(df[j].row)

-----------------------------------------------------------------------------
(* The read endpoints *)

\* s begins with the characters of prefix
BeginsWith(s, prefix) ==
    Len(s) >= Len(prefix) /\ SubSeq(s, 1, Len(prefix)) = prefix

\* the page objects of a 200 answer of get_service_info
Returned(body) ==
    IF DOMAIN body = {"page"} THEN {body.page} ELSE Range(body.pages)

\* the stored pages whose state_office_token literally begins with
\* "<region>/" and whose area and service tokens are those of the request
PrefixMatches(rows, args) ==
    {r \in rows :
        /\ BeginsWith(r.state_office_token, args.state_token \o <<"/">>)
        /\ r.area_served_token = args.area_served_token
        /\ r.service_token = args.service_token}

\* C11 as stated: fetch-by-region+area+service returns exactly the pages
\* whose state_office_token begins with "<region>/" and whose area and
\* service tokens equal the given ones, for every region string, "%" and "_"
\* included; with no such page the answer is 404.
C11_Original ==
    [][ ( /\ Answered
          /\ response'.op = "get_service_info"
          /\ Authentic(response'.creds) )
        => LET expected == PrefixMatches(pages, response'.args)
           IN  IF expected = {}
               THEN response'.status = 404
               ELSE /\ response'.status = 200
                    /\ Returned(response'.body) = {PageJson(r) : r \in expected} ]_vars

\* the stored pages the query of get_service_info selects
Selected(rows, args) ==
    {r \in rows :
        /\ Like(r.state_office_token, args.state_token \o <<"/", "%">>)
        /\ r.area_served_token = args.area_served_token
        /\ r.service_token = args.service_token}

\* C12: the shape of the answer of fetch-by-region+area+service depends only
\* on the number of pages the query selects: none gives 404, exactly one
\* gives 200 with a single page object, two or more give 200 with an array
\* that holds one object per selected page.
C12_DualShape ==
    [][ ( /\ Answered
          /\ response'.op = "get_service_info"
          /\ Authentic(response'.creds) )
        => LET selected == Selected(pages, response'.args)
               n == Cardinality(selected)
           IN  /\ n = 0 => response'.status = 404
               /\ n = 1 => /\ response'.status = 200
                           /\ DOMAIN response'.body = {"page"}
                           /\ \E r \in selected : response'.body.page = PageJson(r)
               /\ n >= 2 => /\ response'.status = 200
                            /\ DOMAIN response'.body = {"pages"}
                            /\ Len(response'.body.pages) = n
                            /\ Range(response'.body.pages)
                                 = {PageJson(r) : r \in selected} ]_vars

\* C12 witness: a region with pages of two offices was answered with an
\* array of two objects.
C12_Witness ==
    /\ response # NoResponse
    /\ response.op = "get_service_info"
    /\ response.status = 200
    /\ DOMAIN response.body = {"pages"}
    /\ Len(response.body.pages) = 2
    /\ response.body.pages[1].state_office_token
         # response.body.pages[2].state_office_token

\* C13: with at least one page in the table the sitemap index is answered
\* 200 with a list that holds no token twice and has as many entries as
\* there are distinct state_office_token values; with an empty table the
\* answer is 404.
C13_SitemapIndexDistinct ==
    [][ ( /\ Answered
          /\ response'.op = "get_sitemap_index"
          /\ Authentic(response'.creds) )
        => IF pages = {}
           THEN response'.status = 404
           ELSE /\ response'.status = 200
                /\ DOMAIN response'.body = {"tokens"}
                /\ LET tokens == response'.body.tokens
                   IN  /\ \A i, j \in DOMAIN tokens :
                              tokens[i] = tokens[j] => i = j
                       /\ Len(tokens)
                            = Cardinality({r.state_office_token : r \in pages}) ]_vars

\* C13 witness: the index of a table of three pages of two offices was
\* answered with two tokens.
C13_Witness ==
    /\ response # NoResponse
    /\ response.op = "get_sitemap_index"
    /\ response.status = 200
    /\ Cardinality(pages) = 3
    /\ Len(response.body.tokens) = 2

\* the body is the fixed error shape: error, message, status_code
FixedShape(resp) ==
    /\ DOMAIN resp.body = {"error"}
    /\ DOMAIN resp.body.error = {"error", "message", "status_code"}
    /\ resp.body.error.status_code = resp.status

\* C14 as stated: every request during which the data store raises an error
\* is answered 500 with the fixed-shape error body, after the session has
\* been rolled back.
C14_Original ==
    [][ (Answered /\ response'.db_failure)
        => /\ response'.status = 500
           /\ FixedShape(response')
           /\ response'.rolled_back ]_vars

-----------------------------------------------------------------------------
(* The importer *)

\* C15 as stated: the importer process exits with a failure status when
\* either import aborted (overall indicator False), and with the success
\* status only when the overall indicator is True.
C15_Original ==
    main.pc = "exited"
    => /\ ~main.overall_success => main.exit_status # 0
       /\ main.exit_status = 0 => main.overall_success

\* the step records a row error of one of the two kinds that staging raises
StagingFailed ==
    /\ Len(error_details') = Len(error_details) + 1
    /\ error_details'[Len(error_details')].type
         \in {"Duplicate Key Constraint", "Unexpected Error"}

\* C16 as stated: when staging a row raises a constraint violation or an
\* unexpected error, only that row's effect is rolled back: the delete-all
\* and the rows of the batch staged before it remain in the transaction.
C16_Original ==
    [][ StagingFailed => session' = session ]_vars

\* C17 as stated, for a sheet of at least one row: after an import run that
\* reached its summary no page that existed before the run remains in the
\* table.
C17_Original ==
    (ipc = "done" /\ Len(df) > 0)
    => \A r \in pages : \A old \in created : r.id # old.id

\* C18: when a batch commit fails, none of the rows staged in the batch gets
\* into the table, the batch's staged-success count moves from the success
\* total to the failure total, and the importer goes on with the next batch
\* (or, after the last one, with the summary).
C18_FailedCommitFailsBatch ==
    [][ failed_commits' # failed_commits
        => /\ pages' = pages
           /\ session.added \cap pages' = {}
           /\ session' = NoSession
           /\ success_count' = success_count - batch_success
           /\ error_count' = error_count + batch_success
           /\ pos' = pos
           /\ ipc' = IF pos < Len(df) THEN "row" ELSE "summary" ]_vars

\* C18 witness: the commit of the first batch failed with rows staged, the
\* second batch was committed, and the run reached its summary.
C18_Witness ==
    /\ ipc = "done"
    /\ failed_commits = {batch_size}
    /\ import_summary.error_count >= 2
    /\ import_summary.success_count = 1
    /\ Cardinality(pages) = 1

\* the page table as it was before the run: the pages created earlier
PagesBefore == {OfficePage(c.id, c.data) : c \in created}

\* C19: when the source cannot be fetched or lacks a required column the
\* import aborts before any delete or insert: the page table is unchanged,
\* nothing is staged, and no row is counted as succeeded or failed.
C19_AbortLeavesTable ==
    ipc = "aborted"
    => /\ ~sheet.fetched \/ ~(FieldSet \subseteq sheet.columns)
       /\ pages = PagesBefore
       /\ session = NoSession
       /\ success_count = 0 /\ error_count = 0 /\ error_details = <<>>
       /\ import_summary = NoSummary

\* C19 witness: a sheet without the page_content column aborted the import
\* of a database that holds a page.
C19_Witness ==
    /\ ipc = "aborted"
    /\ sheet.fetched
    /\ pages = {OldPage}

\* the sheet row numbers of the recorded errors are strictly increasing
ErrorsInOrder(errors) ==
    \A i, j \in DOMAIN errors : i < j => errors[i].row < errors[j].row

\* C20: once the sheet is fetched and validated the run reaches its summary,
\* with every deduplicated row attempted exactly once, in order: each row
\* step takes the next row and counts it once, and at the end every row is
\* counted as a success or as an error, whatever rows or commits failed.
C20_RunsToSummary ==
    /\ (ipc = "delete") ~> (ipc = "done")
    /\ [][ pos' # pos
           => /\ pos' = pos + 1
              /\ success_count' + error_count' = success_count + error_count + 1 ]_vars
    /\ [](ipc = "done"
          => /\ pos = Len(df)
             /\ import_summary.success_count + import_summary.error_count = Len(df)
             /\ ErrorsInOrder(import_summary.errors))

\* C20 witness: a run of two batches with an unexpected row error and a
\* failed batch commit reached its summary.
C20_Witness ==
    /\ ipc = "done"
    /\ Len(df) > batch_size
    /\ failed_commits # {}
    /\ \E e \in DOMAIN import_summary.errors :
          import_summary.errors[e].type = "Unexpected Error"

-----------------------------------------------------------------------------
(* The import report *)

ErrorCategories ==
    {"Empty Required Fields", "Duplicate Key Constraint", "Unexpected Error"}

\* C21 as stated: at the end of a run the report holds one failure entry,
\* with row number, category and details, for each failed row: the number
\* of entries equals the reported failure count, also for the rows that
\* failed because the commit of their batch failed.
C21_Original ==
    ipc = "done"
    => /\ Len(import_summary.errors) = import_summary.error_count
       /\ \A e \in DOMAIN import_summary.errors :
              /\ DOMAIN import_summary.errors[e] = {"row", "type", "details"}
              /\ import_summary.errors[e].type \in ErrorCategories

\* C22: the row number of every failure entry is the position of the failed
\* row in the source sheet, counted from 1 with the header row (0-based data
\* index + 2), also when exact duplicates before it were dropped: the sheet
\* row at that number is a first occurrence, has the empty fields or the key
\* that the entry reports, and the entries are in sheet order.
C22_RowNumberIsSheetRow ==
    /\ ErrorsInOrder(error_details)
    /\ \A e \in DOMAIN error_details :
          LET entry == error_details[e]
              i == entry.row - 1
          IN  /\ i \in DOMAIN sheet.rows
              /\ ~duplicated(sheet.rows, i)
              /\ IF entry.type = "Empty Required Fields"
                 THEN /\ entry.details # <<>>
                      /\ entry.details = empty_required_fields(sheet.rows[i])
                 ELSE /\ empty_required_fields(sheet.rows[i]) = <<>>
                      /\ entry.type = "Duplicate Key Constraint"
                         => /\ entry.details = Triple(sheet.rows[i])
                            /\ \/ \E j \in 1..(i - 1) :
                                     RowKey(sheet.rows[j]) = RowKey(sheet.rows[i])
                               \/ \E old \in created :
                                     Triple(old.data) = RowKey(sheet.rows[i])

\* C22 witness: a failure entry for a row that stands behind a dropped
\* duplicate: its row number is larger than its place in the deduplicated
\* data would give.
C22_Witness ==
    /\ ipc = "done"
    /\ \E e \in DOMAIN import_summary.errors, k \in DOMAIN df :
          /\ import_summary.errors[e].row = df[k].idx + 2
          /\ df[k].idx + 1 > k

\* df holds the deduplicated rows of the fetched sheet
Deduplicated == ipc \in {"delete", "row", "commit", "summary", "done"}

\* C23: deduplication keeps, in the order of the sheet, the first occurrence
\* of every row and drops each later row that equals an earlier one in every
\* column; rows that share only the key triple are all kept.
C23_DedupKeepsFirst ==
    Deduplicated
    => /\ \A k \in DOMAIN df :
             /\ df[k].idx + 1 \in DOMAIN sheet.rows
             /\ df[k].row = sheet.rows[df[k].idx + 1]
             /\ \A j \in 1..df[k].idx : sheet.rows[j] # df[k].row
       /\ \A k1, k2 \in DOMAIN df : k1 < k2 => df[k1].idx < df[k2].idx
       /\ \A i \in DOMAIN sheet.rows : \E k \in DOMAIN df : df[k].row = sheet.rows[i]

\* C23 witness: a sheet with an exact duplicate and with two rows of one key
\* that differ in content: the duplicate is gone, both rows of the key stay.
C23_Witness ==
    /\ Deduplicated
    /\ Len(df) < Len(sheet.rows)
    /\ \E k1, k2 \in DOMAIN df :
          /\ k1 < k2
          /\ Triple(df[k1].row) = Triple(df[k2].row)

\* the rows of the sheet that remain after exact duplicates are removed
DistinctRows == {sheet.rows[i] : i \in DOMAIN sheet.rows}

\* C25: at the summary of an office import run success_count + error_count
\* is the number of rows that remain after exact-duplicate removal: each is
\* counted once, as a success or as a failure, whatever mix of empty-field
\* rows, key violations, unexpected errors and failed commits the run had.
C25_CountsCoverRows ==
    ipc = "done"
    => /\ import_summary.success_count >= 0
       /\ import_summary.error_count >= 0
       /\ import_summary.success_count + import_summary.error_count
            = Cardinality(DistinctRows)

\* C25 witness: a run of two batches over a sheet with a dropped duplicate,
\* with an empty-field row, a key violation and a failed commit.
C25_Witness ==
    /\ ipc = "done"
    /\ Len(df) < Len(sheet.rows)
    /\ failed_commits # {}
    /\ \E e1, e2 \in DOMAIN import_summary.errors :
          /\ import_summary.errors[e1].type = "Empty Required Fields"
          /\ import_summary.errors[e2].type = "Duplicate Key Constraint"

-----------------------------------------------------------------------------
(* Users *)

\* the table us holds a record of the username whose hash is that of the
\* password
AuthenticIn(us, username, password) ==
    \E u \in us :
        /\ u.username = username
        /\ check_password_hash(u.password_hash, password)

\* C26: create_user keeps at most one record per username: for a new
\* username it adds one record, for an existing one it replaces the hash of
\* that record; afterwards the given password authenticates the user and no
\* other password does, the previous one included, as the next requests show.
C26_OneRecordPerUser ==
    /\ [][ (Answered /\ response'.op = "create_user")
           => LET username == response'.args.username
                  password == response'.args.password
              IN  /\ \A u1, u2 \in users' : u1.username = u2.username => u1 = u2
                  /\ Cardinality(users')
                       = IF \E u \in users : u.username = username
                         THEN Cardinality(users)
                         ELSE Cardinality(users) + 1
                  /\ AuthenticIn(users', username, password)
                  /\ \A previous \in Passwords \ {password} :
                         ~AuthenticIn(users', username, previous)
                  /\ \A u \in users : u.username # username => u \in users' ]_vars
    /\ [][ (Answered /\ response'.op = "get_sitemap_index")
           => (response'.status # 401
               <=> AuthenticIn(users, response'.creds.username,
                               response'.creds.password)) ]_vars

\* C26 witness: the password of admin was replaced, a second user exists,
\* and a request with admin's first password was then answered 401.
C26_Witness ==
    /\ response # NoResponse
    /\ response.op = "get_sitemap_index"
    /\ response.creds = ValidCreds
    /\ response.status = 401
    /\ Cardinality(users) = 2
    /\ \E u \in users : u.username = "admin" /\ u.id = 1

-----------------------------------------------------------------------------
(* The dual-source import *)

\* the script got past the API key check and has ended
RunEnded == main.pc = "exited" /\ sheet # NoSheet

\* the "Fran Dev" tab was fetched with all its columns
FrandevValid ==
    /\ frandev.sheet # NoSheet
    /\ frandev.sheet.fetched
    /\ FrandevColumns \subseteq frandev.sheet.columns

\* C24: the script runs the office import and then the franchise-development
\* import, the second also when the first aborted; the overall indicator is
\* True exactly when neither aborted, whatever rows failed; the totals of
\* the final summary are the sums of the two imports' success and failure
\* counts.
C24_DualImport ==
    /\ [][ frandev' # frandev
           => /\ ipc \in {"done", "aborted"}
              /\ ipc' = ipc
              /\ import_summary' = import_summary
              /\ pages' = pages ]_vars
    /\ [](RunEnded
          => /\ frandev.sheet # NoSheet
             /\ main.overall_success <=> (ipc = "done" /\ FrandevValid)
             /\ main.total_success
                  = import_summary.success_count + frandev.summary.success_count
             /\ main.total_errors
                  = import_summary.error_count + frandev.summary.error_count
             /\ ipc = "aborted"
                => import_summary.success_count = 0 /\ import_summary.error_count = 0
             /\ ~FrandevValid
                => frandev.summary.success_count = 0 /\ frandev.summary.error_count = 0
             /\ FrandevValid
                => frandev.summary.success_count + frandev.summary.error_count
                     = Cardinality({frandev.sheet.rows[i] : i \in DOMAIN frandev.sheet.rows}))

\* C24 witness: both imports ran to their end with failed rows in each, the
\* overall indicator is True, and the totals count rows of both.
C24_Witness ==
    /\ RunEnded
    /\ main.overall_success
    /\ import_summary.success_count > 0 /\ import_summary.error_count > 0
    /\ frandev.summary.success_count > 0 /\ frandev.summary.error_count > 0
    /\ main.total_errors >= 2

=============================================================================
